---- MODULE Spec2Model ----
(***************************************************************************)
(* Model of PDF_Mandiant_Report.py: the three text parsers, the top-score  *)
(* selection and the assembly of the report's story.                       *)
(*                                                                         *)
(* Texts are sequences of symbols.  A symbol is one character ("a", "1",   *)
(* "|", " ", "\n", ...) or one of the fixed literals the code searches     *)
(* for, written as a single symbol:                                        *)
(*   "SEP"    the 60-dash block separator            (line 85)             *)
(*   "IPM"    the IP marker of ip_regex              (line 91)             *)
(*   "SCM"    the score marker of score_regex        (line 92)             *)
(*   "TOT"    "Total de IPs analizadas:"             (line 117)            *)
(*   "RATE"   "Tasa de exito:" (accented in source)  (line 118)            *)
(*   "CNT"    "Paises unicos encontrados:"           (line 119)            *)
(*   "DIST"   "DISTRIBUCION POR PAIS:"               (line 126)            *)
(*   "bullet" the bullet character of ip_line_regex  (line 134)            *)
(***************************************************************************)
EXTENDS Integers, Sequences, FiniteSets, TLC

VARIABLES pc, cat_text, full_text, geo_text, df_cats, df_full, geo_data,
          exc, top_n, chart_cats, chart_scores, chart_geo, story

vars == <<pc, cat_text, full_text, geo_text, df_cats, df_full, geo_data,
          exc, top_n, chart_cats, chart_scores, chart_geo, story>>

(***************************************************************************)
(* Characters and the string methods the parsers use.                      *)
(***************************************************************************)
DigitChars == <<"0", "1", "2", "3", "4", "5", "6", "7", "8", "9">>

IsDigit(c) == \E i \in 1..Len(DigitChars) : DigitChars[i] = c

\* \s of the regular expressions and the characters str.strip() removes
IsSpace(c) == c \in {" ", "\t", "\n"}

\* [A-Za-z]
IsLetter(c) == c \in {"a", "b", "x", "y", "A", "B", "I", "P", "s"}

DigitVal(c) == (CHOOSE i \in 1..Len(DigitChars) : DigitChars[i] = c) - 1

\* int() of a run of digits
RECURSIVE ParseInt(_)
ParseInt(ds) ==
  IF ds = <<>> THEN 0
  ELSE 10 * ParseInt(SubSeq(ds, 1, Len(ds) - 1)) + DigitVal(ds[Len(ds)])

\* s[i:] of a sequence (i is 1-based)
From(s, i) == SubSeq(s, i, Len(s))

\* the first index >= i whose symbol is not whitespace (Len+1 when none)
RECURSIVE SkipSpace(_, _)
SkipSpace(s, i) ==
  IF i <= Len(s) /\ IsSpace(s[i]) THEN SkipSpace(s, i + 1) ELSE i

\* the first index >= i whose symbol is not a digit
RECURSIVE SkipDigits(_, _)
SkipDigits(s, i) ==
  IF i <= Len(s) /\ IsDigit(s[i]) THEN SkipDigits(s, i + 1) ELSE i

\* the first index >= i whose symbol is neither a digit nor a dot: [\d\.]+
RECURSIVE SkipDigitsDots(_, _)
SkipDigitsDots(s, i) ==
  IF i <= Len(s) /\ (IsDigit(s[i]) \/ s[i] = ".")
  THEN SkipDigitsDots(s, i + 1) ELSE i

\* the first index >= i holding symbol c (0 when none)
RECURSIVE IndexOf(_, _, _)
IndexOf(s, c, i) ==
  IF i > Len(s) THEN 0
  ELSE IF s[i] = c THEN i ELSE IndexOf(s, c, i + 1)

\* str.strip()
RECURSIVE RStrip(_)
RStrip(s) ==
  IF s # <<>> /\ IsSpace(s[Len(s)]) THEN RStrip(SubSeq(s, 1, Len(s) - 1)) ELSE s

Strip(s) == RStrip(From(s, SkipSpace(s, 1)))

\* str.splitlines(): no empty last line after a final line break
RECURSIVE SplitLines(_)
SplitLines(s) ==
  IF s = <<>> THEN <<>>
  ELSE LET k == IndexOf(s, "\n", 1)
       IN  IF k = 0 THEN <<s>>
           ELSE <<SubSeq(s, 1, k - 1)>> \o SplitLines(From(s, k + 1))

\* str.split(sep) for a one-symbol separator: always at least one piece
RECURSIVE SplitOn(_, _)
SplitOn(s, sep) ==
  LET k == IndexOf(s, sep, 1)
  IN  IF k = 0 THEN <<s>>
      ELSE <<SubSeq(s, 1, k - 1)>> \o SplitOn(From(s, k + 1), sep)

\* "\n".join(lines)
RECURSIVE JoinLines(_)
JoinLines(ls) ==
  IF ls = <<>> THEN <<>>
  ELSE IF Len(ls) = 1 THEN ls[1]
  ELSE ls[1] \o <<"\n">> \o JoinLines(Tail(ls))

\* all sequences over S of length at most n
RECURSIVE SeqsUpTo(_, _)
SeqsUpTo(S, n) ==
  IF n = 0 THEN {<<>>}
  ELSE LET T == SeqsUpTo(S, n - 1)
       IN  T \cup {Append(t, x) : t \in {u \in T : Len(u) = n - 1}, x \in S}

(***************************************************************************)
(* parse_categories_report                                                 *)
(***************************************************************************)
\* float(): a run of digits and dots converts when it has at most one dot
\* and at least one digit; anything else raises ValueError
FloatValid(g) ==
  /\ Cardinality({i \in 1..Len(g) : g[i] = "."}) <= 1
  /\ \E i \in 1..Len(g) : IsDigit(g[i])

\* the value of a valid float literal: mant / 10^frac, trailing zeros dropped
RECURSIVE NormFloat(_, _)
NormFloat(mant, frac) ==
  IF frac > 0 /\ mant % 10 = 0 THEN NormFloat(mant \div 10, frac - 1)
  ELSE [mant |-> mant, frac |-> frac]

ParseFloat(g) ==
  LET k  == IndexOf(g, ".", 1)
      ds == IF k = 0 THEN g ELSE SubSeq(g, 1, k - 1) \o From(g, k + 1)
  IN  NormFloat(ParseInt(ds), IF k = 0 THEN 0 ELSE Len(g) - k)

\* a failed re.search (None)
NoMatch == [ok |-> FALSE]

\* re.search(r"^\s*([^|=]+?)\s*\|\s*(\d+)\s*\|\s*([\d\.]+)", line):
\* the groups of the match, or None
CatMatch(line) ==
  LET p  == IndexOf(line, "|", 1)
      c1 == SkipSpace(line, p + 1)
      c2 == SkipDigits(line, c1)
      q  == SkipSpace(line, c2)
      s1 == SkipSpace(line, q + 1)
      s2 == SkipDigitsDots(line, s1)
  IN  IF /\ p > 1
         /\ IndexOf(SubSeq(line, 1, p - 1), "=", 1) = 0
         /\ c2 > c1
         /\ q <= Len(line) /\ line[q] = "|"
         /\ s2 > s1
      THEN [ok |-> TRUE,
            g1 |-> SubSeq(line, SkipSpace(line, 1), p - 1),
            g2 |-> SubSeq(line, c1, c2 - 1),
            g3 |-> SubSeq(line, s1, s2 - 1)]
      ELSE NoMatch

\* the body of the loop of lines 71-78 from line i on; a float() that raises
\* ends the call with the exception and no value
RECURSIVE CatLoop(_, _, _)
CatLoop(lines, i, data) ==
  IF i > Len(lines) THEN [exc |-> "none", data |-> data]
  ELSE LET m == CatMatch(lines[i])
       IN  IF ~m.ok THEN CatLoop(lines, i + 1, data)
           ELSE IF ~FloatValid(m.g3) THEN [exc |-> "ValueError", data |-> <<>>]
           ELSE CatLoop(lines, i + 1,
                  Append(data, [Categoria      |-> Strip(m.g1),
                                Cantidad_IPs   |-> ParseInt(m.g2),
                                Score_Promedio |-> ParseFloat(m.g3)]))

parse_categories_report(text_content) == CatLoop(SplitLines(text_content), 1, <<>>)

(***************************************************************************)
(* parse_full_report                                                       *)
(***************************************************************************)
\* re.search(r"IPM\s*(.*)", block): the first marker matches whatever
\* follows it; \s* runs over line breaks too, and (.*) stops at the next one
IpMatch(block) ==
  LET i == IndexOf(block, "IPM", 1)
      a == SkipSpace(block, i + 1)
      e == IndexOf(block, "\n", a)
  IN  IF i = 0 THEN NoMatch
      ELSE [ok |-> TRUE,
            g1 |-> SubSeq(block, a, IF e = 0 THEN Len(block) ELSE e - 1)]

\* re.search(r"SCM\s*(\d+)", block) tried from index i on: the first marker
\* that is followed, after any whitespace, by a digit
RECURSIVE ScoreMatchFrom(_, _)
ScoreMatchFrom(block, i) ==
  LET k == IndexOf(block, "SCM", i)
      a == SkipSpace(block, k + 1)
      e == SkipDigits(block, a)
  IN  IF k = 0 THEN NoMatch
      ELSE IF e > a THEN [ok |-> TRUE, g1 |-> SubSeq(block, a, e - 1)]
      ELSE ScoreMatchFrom(block, k + 1)

ScoreMatch(block) == ScoreMatchFrom(block, 1)

\* BlockRecords with the score optional
BlockRecords_IpOnly(ip_match, score_match) ==
  IF ip_match.ok
  THEN <<[IoC |-> Strip(ip_match.g1),
          Score |-> IF score_match.ok THEN ParseInt(score_match.g1) ELSE 0]>>
  ELSE <<>>

\* lines 102-107: a record only when both searches matched
BlockRecords(ip_match, score_match) ==
  IF ip_match.ok /\ score_match.ok
  THEN <<[IoC |-> Strip(ip_match.g1), Score |-> ParseInt(score_match.g1)]>>
  ELSE <<>>

\* the loop of lines 95-107 from block i on
RECURSIVE FullLoop(_, _)
FullLoop(blocks, i) ==
  IF i > Len(blocks) THEN <<>>
  ELSE LET clean_block == Strip(blocks[i])
       IN  IF clean_block = <<>> THEN FullLoop(blocks, i + 1)
           ELSE BlockRecords(IpMatch(clean_block), ScoreMatch(clean_block))
                  \o FullLoop(blocks, i + 1)

parse_full_report(text_content) == FullLoop(SplitOn(text_content, "SEP"), 1)

(***************************************************************************)
(* parse_geolocation_report                                                *)
(***************************************************************************)
\* re.search(marker + r"\s*(\d+)", text) tried from index i on
RECURSIVE MarkerDigitsFrom(_, _, _)
MarkerDigitsFrom(text, marker, i) ==
  LET k == IndexOf(text, marker, i)
      a == SkipSpace(text, k + 1)
      e == SkipDigits(text, a)
  IN  IF k = 0 THEN NoMatch
      ELSE IF e > a THEN [ok |-> TRUE, g1 |-> SubSeq(text, a, e - 1)]
      ELSE MarkerDigitsFrom(text, marker, k + 1)

\* re.search(r"RATE\s*([\d\.]+)%", text) tried from index i on
RECURSIVE RateMatchFrom(_, _)
RateMatchFrom(text, i) ==
  LET k == IndexOf(text, "RATE", i)
      a == SkipSpace(text, k + 1)
      e == SkipDigitsDots(text, a)
  IN  IF k = 0 THEN NoMatch
      ELSE IF e > a /\ e <= Len(text) /\ text[e] = "%"
           THEN [ok |-> TRUE, g1 |-> SubSeq(text, a, e - 1)]
      ELSE RateMatchFrom(text, k + 1)

\* stats_regexs, lines 116-120
StatKeys == {"total", "rate", "countries"}

StatMatch(key, text) ==
  CASE key = "total"     -> MarkerDigitsFrom(text, "TOT", 1)
    [] key = "rate"      -> RateMatchFrom(text, 1)
    [] key = "countries" -> MarkerDigitsFrom(text, "CNT", 1)

\* lines 121-123: a key is set only when its expression matched, to the raw
\* captured string
ParseSummary(text) ==
  [key \in {k \in StatKeys : StatMatch(k, text).ok} |-> StatMatch(key, text).g1]

\* the first index >= i whose symbol is neither a letter nor whitespace
RECURSIVE SkipNameChars(_, _)
SkipNameChars(s, i) ==
  IF i <= Len(s) /\ (IsLetter(s[i]) \/ IsSpace(s[i]))
  THEN SkipNameChars(s, i + 1) ELSE i

\* s holds the symbols lit from index i on
HasAt(s, i, lit) ==
  /\ i >= 1
  /\ i + Len(lit) - 1 <= Len(s)
  /\ SubSeq(s, i, i + Len(lit) - 1) = lit

\* re.search(r"^\s*([A-Za-z\s]+)\s\((\d+)\sIPs\):", line) on a stripped line
HeaderMatch(line) ==
  LET a == SkipSpace(line, 1)
      r == SkipNameChars(line, a)
      e == SkipDigits(line, r + 1)
  IN  IF /\ r - a >= 2
         /\ IsSpace(line[r - 1])
         /\ HasAt(line, r, <<"(">>)
         /\ e > r + 1
         /\ e <= Len(line) /\ IsSpace(line[e])
         /\ HasAt(line, e + 1, <<"I", "P", "s", ")", ":">>)
      THEN [ok |-> TRUE,
            g1 |-> SubSeq(line, a, r - 2),
            g2 |-> SubSeq(line, r + 1, e - 1)]
      ELSE NoMatch

\* the first index p >= i with whitespace at p and "(" at p + 1 (0 when none)
RECURSIVE FindSpaceParen(_, _)
FindSpaceParen(s, i) ==
  IF i + 1 > Len(s) THEN 0
  ELSE IF IsSpace(s[i]) /\ s[i + 1] = "(" THEN i
  ELSE FindSpaceParen(s, i + 1)

\* re.search(r"^\s*bullet\s*([\d\.]+)\s-\s(.*?)\s\((.*?)\)", line)
IpLineMatch(line) ==
  LET b == SkipSpace(line, 1)
      a == SkipSpace(line, b + 1)
      e == SkipDigitsDots(line, a)
      p == FindSpaceParen(line, e + 3)
      q == IndexOf(line, ")", p + 2)
  IN  IF /\ HasAt(line, b, <<"bullet">>)
         /\ e > a
         /\ e + 2 <= Len(line)
         /\ IsSpace(line[e]) /\ line[e + 1] = "-" /\ IsSpace(line[e + 2])
         /\ p > 0
         /\ q > 0
      THEN [ok |-> TRUE,
            g1 |-> SubSeq(line, a, e - 1),
            g2 |-> SubSeq(line, e + 3, p - 1),
            g3 |-> SubSeq(line, p + 2, q - 1)]
      ELSE NoMatch

\* a dict as the sequence of its items in insertion order
DictKeys(d) == {d[i].key : i \in 1..Len(d)}

DictGet(d, k) == d[CHOOSE i \in 1..Len(d) : d[i].key = k].val

\* d[k] = v: a key already there keeps its place
DictSet(d, k, v) ==
  IF k \in DictKeys(d)
  THEN [i \in 1..Len(d) |-> IF d[i].key = k THEN [key |-> k, val |-> v] ELSE d[i]]
  ELSE Append(d, [key |-> k, val |-> v])

\* HeaderStep with a repeated header keeping the country's list
HeaderStep_NoReset(st, country, count) ==
  [current_country     |-> country,
   details             |-> IF country \in DictKeys(st.details) THEN st.details
                           ELSE DictSet(st.details, country, <<>>),
   country_counts_list |-> Append(st.country_counts_list,
                                  [Country |-> country, Count |-> count])]

\* HeaderStep with a count row only for a country not seen before
HeaderStep_RowPerCountry(st, country, count) ==
  [current_country     |-> country,
   details             |-> DictSet(st.details, country, <<>>),
   country_counts_list |-> IF country \in DictKeys(st.details)
                           THEN st.country_counts_list
                           ELSE Append(st.country_counts_list,
                                       [Country |-> country, Count |-> count])]

\* no current country yet (current_country = None, line 136)
NoCountry == <<>>

\* lines 144-149: a header line sets the cursor, (re)starts the country's
\* list and adds a row to country_counts_list
HeaderStep(st, country, count) ==
  [current_country     |-> country,
   details             |-> DictSet(st.details, country, <<>>),
   country_counts_list |-> Append(st.country_counts_list,
                                  [Country |-> country, Count |-> count])]

\* lines 151-154: a detail line is appended to the current country's list;
\* without a current country the line is dropped
DetailStep(st, m) ==
  IF st.current_country # NoCountry
  THEN [st EXCEPT !.details =
          DictSet(st.details, st.current_country,
                  Append(DictGet(st.details, st.current_country),
                         [ip |-> m.g1, location |-> m.g2, isp |-> m.g3]))]
  ELSE st

\* the loop of lines 139-154 from line i on
RECURSIVE GeoLoop(_, _, _)
GeoLoop(lines, i, st) ==
  IF i > Len(lines) THEN st
  ELSE LET line == Strip(lines[i])
           hm   == HeaderMatch(line)
           im   == IpLineMatch(line)
       IN  IF line = <<>> THEN GeoLoop(lines, i + 1, st)
           ELSE IF hm.ok
                THEN GeoLoop(lines, i + 1,
                             HeaderStep(st, Strip(hm.g1), ParseInt(hm.g2)))
           ELSE IF im.ok THEN GeoLoop(lines, i + 1, DetailStep(st, im))
           ELSE GeoLoop(lines, i + 1, st)

\* text_content.split("DIST")[1], line 128
DistSection(text) == SplitOn(text, "DIST")[2]

parse_geolocation_report(text_content) ==
  LET st0 == [current_country |-> NoCountry, details |-> <<>>,
              country_counts_list |-> <<>>]
      st  == IF IndexOf(text_content, "DIST", 1) # 0
             THEN GeoLoop(SplitLines(DistSection(text_content)), 1, st0)
             ELSE st0
  IN  [summary   |-> ParseSummary(text_content),
       details   |-> st.details,
       df_counts |-> st.country_counts_list]

(***************************************************************************)
(* Charts: the data each figure is drawn from.                             *)
(***************************************************************************)
Perms(n) ==
  {p \in [1..n -> 1..n] : \A i, j \in 1..n : i # j => p[i] # p[j]}

\* df.sort_values(col, ascending=False): kind defaults to 'quicksort', which
\* is not a stable sort, so any descending arrangement of the rows may result
SortValuesDesc(df, col) ==
  {[i \in 1..Len(df) |-> df[p[i]]] :
     p \in {q \in Perms(Len(df)) :
              \A i \in 1..(Len(df) - 1) : df[q[i]][col] >= df[q[i + 1]][col]}}

\* df.head(n) for n >= 0
Head_(df, n) == SubSeq(df, 1, IF n < Len(df) THEN n ELSE Len(df))

\* a chart function's "return None"
NoChart == [kind |-> "None", rows |-> <<>>]

Chart(rows) == [kind |-> "png", rows |-> rows]

\* `if chart:` is false for None only
Truthy(chart) == chart.kind # "None"

\* the values create_category_bar_chart(df) may return
create_category_bar_chart(df) ==
  IF df = <<>> THEN {NoChart}
  ELSE {Chart(d) : d \in SortValuesDesc(df, "Cantidad_IPs")}

\* line 196: df.sort_values(by='Score', ascending=False).head(top_n)
TopScores(df, n) == {Head_(d, n) : d \in SortValuesDesc(df, "Score")}

\* the values create_top_scores_chart(df, top_n) may return
create_top_scores_chart(df, n) ==
  IF df = <<>> THEN {NoChart}
  ELSE {Chart(d) : d \in TopScores(df, n)}

\* the values create_geo_country_chart(df) may return
create_geo_country_chart(df) ==
  IF df = <<>> THEN {NoChart}
  ELSE {Chart(d) : d \in SortValuesDesc(df, "Count")}

\* create_top_scores_chart(df, top_n=15)
DefaultTopN == 15

(***************************************************************************)
(* generate_pdf_report, step by step                                       *)
(***************************************************************************)
\* line 237; an exception leaves generate_pdf_report at once
ParseCategories ==
  /\ pc = "parse_cats"
  /\ LET r == parse_categories_report(cat_text)
     IN  /\ exc' = r.exc
         /\ df_cats' = r.data
         /\ pc' = IF r.exc = "none" THEN "parse_full" ELSE "raised"
  /\ UNCHANGED <<cat_text, full_text, geo_text, df_full, geo_data, top_n,
                 chart_cats, chart_scores, chart_geo, story>>

\* line 238
ParseFull ==
  /\ pc = "parse_full"
  /\ df_full' = parse_full_report(full_text)
  /\ pc' = "parse_geo"
  /\ UNCHANGED <<cat_text, full_text, geo_text, df_cats, geo_data, exc, top_n,
                 chart_cats, chart_scores, chart_geo, story>>

\* line 239
ParseGeo ==
  /\ pc = "parse_geo"
  /\ geo_data' = parse_geolocation_report(geo_text)
  /\ pc' = "check"
  /\ UNCHANGED <<cat_text, full_text, geo_text, df_cats, df_full, exc, top_n,
                 chart_cats, chart_scores, chart_geo, story>>

\* the condition of line 245
NoValidData(cats, full, geo) ==
  cats = <<>> /\ full = <<>> /\ geo.df_counts = <<>>

\* lines 245-247: return before any chart or document
CheckData ==
  /\ pc = "check"
  /\ pc' = IF NoValidData(df_cats, df_full, geo_data) THEN "aborted" ELSE "charts"
  /\ UNCHANGED <<cat_text, full_text, geo_text, df_cats, df_full, geo_data,
                 exc, top_n, chart_cats, chart_scores, chart_geo,
                 story>>

\* lines 251-254 (in the full run top_n is the default of line 190)
MakeCharts ==
  /\ pc = "charts"
  /\ chart_cats' \in create_category_bar_chart(df_cats)
  /\ chart_scores' \in create_top_scores_chart(df_full, top_n)
  /\ chart_geo' \in create_geo_country_chart(geo_data.df_counts)
  /\ pc' = "cover"
  /\ UNCHANGED <<cat_text, full_text, geo_text, df_cats, df_full, geo_data,
                 exc, top_n, story>>

\* a flowable of the story
Flow(kind, arg) == [kind |-> kind, arg |-> arg]

\* lines 267-276
Cover ==
  /\ pc = "cover"
  /\ story' = <<Flow("Spacer", <<>>), Flow("CoverTitle", <<>>),
                Flow("CoverSubTitle", <<>>), Flow("Spacer", <<>>),
                Flow("CoverTimestamp", <<>>), Flow("PageBreak", <<>>)>>
  /\ pc' = "section1"
  /\ UNCHANGED <<cat_text, full_text, geo_text, df_cats, df_full, geo_data,
                 exc, top_n, chart_cats, chart_scores, chart_geo>>

\* lines 280-284 and 289-295: the chart's image, or the "Sin datos" paragraph
ChartOrPlaceholder(chart, section) ==
  IF Truthy(chart) THEN Flow("Image", chart.rows) ELSE Flow("NoData", section)

\* lines 279-285
Section1 ==
  /\ pc = "section1"
  /\ story' = story \o <<Flow("SectionHeader", 1),
                         ChartOrPlaceholder(chart_cats, 1),
                         Flow("Spacer", <<>>)>>
  /\ pc' = "section2"
  /\ UNCHANGED <<cat_text, full_text, geo_text, df_cats, df_full, geo_data,
                 exc, top_n, chart_cats, chart_scores, chart_geo>>

\* lines 288-295
Section2 ==
  /\ pc = "section2"
  /\ story' = story \o <<Flow("SectionHeader", 2),
                         ChartOrPlaceholder(chart_scores, 2)>>
  /\ pc' = "section3"
  /\ UNCHANGED <<cat_text, full_text, geo_text, df_cats, df_full, geo_data,
                 exc, top_n, chart_cats, chart_scores, chart_geo>>

\* summ.get(key, '0'), line 303
SummGet(summ, key) == IF key \in DOMAIN summ THEN summ[key] ELSE <<"0">>

\* line 303: the three values of the summary sentence
StatsText(summ) ==
  [total     |-> SummGet(summ, "total"),
   rate      |-> SummGet(summ, "rate"),
   countries |-> SummGet(summ, "countries")]

\* CountryLabel with the count the country's last header declared
CountryLabel_Declared(geo, country, ips) ==
  [country |-> country,
   n |-> geo.df_counts[CHOOSE i \in 1..Len(geo.df_counts) :
                         /\ geo.df_counts[i].Country = country
                         /\ \A j \in (i + 1)..Len(geo.df_counts) :
                              geo.df_counts[j].Country # country].Count]

\* line 317: the "(n IPs)" of a country's heading is len(ips)
CountryLabel(geo, country, ips) == [country |-> country, n |-> Len(ips)]

\* lines 315-324 from item i of geo_data['details'].items() on
RECURSIVE CountryFlows(_, _)
CountryFlows(geo, i) ==
  IF i > Len(geo.details) THEN <<>>
  ELSE <<Flow("CountryHeader",
              CountryLabel(geo, geo.details[i].key, geo.details[i].val)),
         Flow("ListFlowable", geo.details[i].val),
         Flow("Spacer", <<>>)>> \o CountryFlows(geo, i + 1)

\* lines 301-326
GeoSection(geo, chart) ==
  IF geo.df_counts # <<>>
  THEN <<Flow("GeoStats", StatsText(geo.summary)), Flow("Spacer", <<>>)>>
       \o (IF Truthy(chart)
           THEN <<Flow("Image", chart.rows), Flow("Spacer", <<>>)>>
           ELSE <<>>)
       \o <<Flow("Heading3", <<>>)>>
       \o CountryFlows(geo, 1)
  ELSE <<Flow("NoData", 3)>>

\* lines 298-326
Section3 ==
  /\ pc = "section3"
  /\ story' = story \o <<Flow("PageBreak", <<>>), Flow("SectionHeader", 3)>>
                    \o GeoSection(geo_data, chart_geo)
  /\ pc' = "build"
  /\ UNCHANGED <<cat_text, full_text, geo_text, df_cats, df_full, geo_data,
                 exc, top_n, chart_cats, chart_scores, chart_geo>>

\* lines 328-334: doc.build(story) writes the file or fails; either way the
\* function returns
DocBuild ==
  /\ pc = "build"
  /\ pc' \in {"saved", "save_failed"}
  /\ UNCHANGED <<cat_text, full_text, geo_text, df_cats, df_full, geo_data,
                 exc, top_n, chart_cats, chart_scores, chart_geo,
                 story>>

(***************************************************************************)
(* Input texts.                                                            *)
(***************************************************************************)
MaxCatLines == 3
MaxFullLines == 4
MaxGeoLines == 4
MaxRunGeoLines == 3
MaxTopRecs == 4
MaxTopN == 2

\* the texts made of at most n of the given lines
TextsOf(lines, n) == {JoinLines(ls) : ls \in SeqsUpTo(lines, n)}

CatLabels == {<<"a">>, <<" ", "b", " ">>}
CatCountFields == {<<"1">>, <<"0", "7">>, <<"x">>}
CatScoreFields ==
  {<<"5">>, <<"1", ".", "5", "0">>, <<"1", ".", "2", ".", "3">>, <<".">>}

CatLines ==
  {l \o <<"|", " ">> \o c \o <<"|">> \o sc :
     l \in CatLabels, c \in CatCountFields, sc \in CatScoreFields}
  \cup {<<"x">>, <<>>, <<"=", "a", "|", "1", "|", "5">>}

FullLines ==
  {<<"IPM", " ", "a", " ">>, <<"IPM">>, <<"SCM", " ", "7">>, <<"SCM", "x">>,
   <<"IPM", "b", " ", "SCM", "0", "9">>, <<"x">>, <<" ">>, <<"SEP">>}

HeaderA3 == <<"A", " ", "(", "3", " ", "I", "P", "s", ")", ":">>
HeaderA1 == <<"A", " ", "(", "1", " ", "I", "P", "s", ")", ":">>
HeaderB2 == <<" ", "B", " ", "b", " ", "(", "0", "2", " ", "I", "P", "s", ")", ":">>
Detail1 == <<"bullet", " ", "1", ".", "1", " ", "-", " ", "x", " ", "(", "y", ")">>
Detail2 == <<" ", "bullet", "2", " ", "-", " ", "y", " ", "x", " ", "(", "x", ")", "a">>
BadDetail == <<"bullet", " ", "1", ".", "1", " ", "x", " ", "(", "y", ")">>
BadHeader == <<"A", "(", "3", " ", "I", "P", "s", ")", ":">>

GeoLines ==
  {HeaderA3, HeaderA1, HeaderB2, Detail1, Detail2, BadDetail, <<" ">>, <<"DIST">>}

RunGeoLines == {HeaderA3, HeaderA1, HeaderB2, Detail1, BadHeader}

TotalLine == <<"TOT", " ", "4", "2">>
RateLine == <<"RATE", "9", ".", "5", "%">>
BadRateLine == <<"RATE", " ", "9", ".", "5">>
CountriesLine == <<"CNT", " ", "3">>

\* a geolocation text: summary lines, then (if any) the section marker and
\* the lines of the distribution section
GeoTexts(summaries, lines, n) ==
  {JoinLines(sm) : sm \in summaries}
  \cup {JoinLines(sm \o <<<<"DIST">>>> \o ls) :
          sm \in summaries, ls \in SeqsUpTo(lines, n)}

TopRecords == {[IoC |-> i, Score |-> sc] : i \in {<<"a">>, <<"b">>}, sc \in {1, 2}}

EmptyGeo == [summary |-> <<>>, details |-> <<>>, df_counts |-> <<>>]

\* the state before the first statement; the texts are the call's arguments
InitWith(start, cats, fulls, geos, dfs, ns) ==
  /\ pc = start
  /\ cat_text \in cats
  /\ full_text \in fulls
  /\ geo_text \in geos
  /\ df_full \in dfs
  /\ top_n \in ns
  /\ df_cats = <<>>
  /\ geo_data = EmptyGeo
  /\ exc = "none"
  /\ chart_cats = NoChart
  /\ chart_scores = NoChart
  /\ chart_geo = NoChart
  /\ story = <<>>

\* parse_categories_report alone
InitCat ==
  InitWith("parse_cats", TextsOf(CatLines, MaxCatLines), {<<>>}, {<<>>},
           {<<>>}, {DefaultTopN})

SpecCat == InitCat /\ [][ParseCategories]_vars

\* parse_full_report alone
InitFull ==
  InitWith("parse_full", {<<>>}, TextsOf(FullLines, MaxFullLines), {<<>>},
           {<<>>}, {DefaultTopN})

SpecFull == InitFull /\ [][ParseFull]_vars

\* parse_geolocation_report alone
InitGeo ==
  InitWith("parse_geo", {<<>>}, {<<>>},
           GeoTexts({<<TotalLine>>}, GeoLines, MaxGeoLines),
           {<<>>}, {DefaultTopN})

SpecGeo == InitGeo /\ [][ParseGeo]_vars

\* the chart functions alone, on any records and any top_n
InitTop ==
  InitWith("charts", {<<>>}, {<<>>}, {<<>>},
           SeqsUpTo(TopRecords, MaxTopRecs), 0..MaxTopN)

SpecTop == InitTop /\ [][MakeCharts]_vars

\* generate_pdf_report(output_path, cat_text, full_text, geo_text)
RunCatTexts ==
  {<<>>, <<"a", "|", "1", "|", "5">>, <<"a", "|", "1", "|", "1", ".", "2", ".", "3">>}

RunFullTexts == {<<>>, <<"IPM", " ", "a", "\n", "SCM", " ", "7">>}

RunSummaries ==
  {<<>>, <<TotalLine>>, <<BadRateLine, CountriesLine>>,
   <<TotalLine, RateLine, CountriesLine>>}

Init ==
  InitWith("parse_cats", RunCatTexts, RunFullTexts,
           GeoTexts(RunSummaries, RunGeoLines, MaxRunGeoLines),
           {<<>>}, {DefaultTopN})

Next ==
  \/ ParseCategories
  \/ ParseFull
  \/ ParseGeo
  \/ CheckData
  \/ MakeCharts
  \/ Cover
  \/ Section1
  \/ Section2
  \/ Section3
  \/ DocBuild

Spec == Init /\ [][Next]_vars

(***************************************************************************)
(* Properties of parse_categories_report (SpecCat)                         *)
(***************************************************************************)
CatParsed == pc # "parse_cats"

\* the lines of the categories text that have the pipe-delimited shape and
\* whose score field is a decimal number
ValidCatLines ==
  LET lines == SplitLines(cat_text)
  IN  {i \in 1..Len(lines) :
         CatMatch(lines[i]).ok /\ FloatValid(CatMatch(lines[i]).g3)}

\* C4: parse_categories_report never raises: a pipe-shaped line whose score
\* is not a number contributes no record and every valid line, before or
\* after it, still yields its record.
C4_CategoriesNeverRaise ==
  CatParsed => exc = "none" /\ Len(df_cats) = Cardinality(ValidCatLines)

(***************************************************************************)
(* Properties of parse_full_report (SpecFull)                              *)
(***************************************************************************)
FullParsed == pc = "parse_geo"

NoSeparator == IndexOf(full_text, "SEP", 1) = 0

HasIpMarker(t) == \E i \in 1..Len(t) : t[i] = "IPM"

\* a score marker followed, after whitespace only, by a digit
HasScoreMarker(t) ==
  \E i \in 1..Len(t) : \E j \in (i + 1)..Len(t) :
    /\ t[i] = "SCM"
    /\ IsDigit(t[j])
    /\ \A k \in (i + 1)..(j - 1) : IsSpace(t[k])

\* C5 as stated: a text with no block separator yields no record, whatever
\* marker lines it contains.
C5_NoSeparatorNoRecord == (FullParsed /\ NoSeparator) => df_full = <<>>

\* C5 as amended: a text with no block separator is scanned as one block, so
\* it yields at most one record, and exactly one when it holds both an IP
\* marker and a score marker followed by digits.
C5_NoSeparatorOneBlock ==
  (FullParsed /\ NoSeparator) =>
     /\ Len(df_full) <= 1
     /\ Len(df_full) = 1 <=> (HasIpMarker(full_text) /\ HasScoreMarker(full_text))

C5_Witness == FullParsed /\ NoSeparator /\ Len(df_full) = 1

\* the non-blank blocks of the full text that hold both markers, in order
RECURSIVE MarkedBlocks(_, _)
MarkedBlocks(blocks, i) ==
  IF i > Len(blocks) THEN <<>>
  ELSE (IF HasIpMarker(blocks[i]) /\ HasScoreMarker(blocks[i])
        THEN <<blocks[i]>> ELSE <<>>) \o MarkedBlocks(blocks, i + 1)

\* the text after the first IP marker of a block up to the end of that line
SameLineValue(block) ==
  LET i == IndexOf(block, "IPM", 1)
      e == IndexOf(block, "\n", i + 1)
  IN  Strip(SubSeq(block, i + 1, IF e = 0 THEN Len(block) ELSE e - 1))

\* C6: one record for each block that holds both an IP marker line and a
\* score marker line and none for any other block, in block order; the
\* indicator is the text after the IP marker up to the end of that same
\* line; never more records than blocks.
C6_OneRecordPerMarkedBlock ==
  FullParsed =>
    LET blocks == SplitOn(full_text, "SEP")
        marked == MarkedBlocks(blocks, 1)
    IN  /\ Len(df_full) = Len(marked)
        /\ Len(df_full) <= Len(blocks)
        /\ \A i \in 1..Len(df_full) : df_full[i].IoC = SameLineValue(marked[i])

\* the parts of C6 that do not concern the indicator's value
C6_CountAndOrder ==
  FullParsed =>
    LET blocks == SplitOn(full_text, "SEP")
        marked == MarkedBlocks(blocks, 1)
    IN  /\ Len(df_full) = Len(marked)
        /\ Len(df_full) <= Len(blocks)
        /\ \A i \in 1..Len(df_full) :
             df_full[i].Score = ParseInt(ScoreMatch(marked[i]).g1)

(***************************************************************************)
(* Properties of parse_geolocation_report (SpecGeo)                        *)
(***************************************************************************)
GeoParsed == pc = "check"

\* the stripped lines of the distribution section of a geolocation text:
\* what lies between the first section marker and the next one (or the end)
SectionLines(t) ==
  LET a   == IndexOf(t, "DIST", 1)
      b   == IndexOf(t, "DIST", a + 1)
      sec == SubSeq(t, a + 1, IF b = 0 THEN Len(t) ELSE b - 1)
      ls  == SplitLines(sec)
  IN  IF a = 0 THEN <<>> ELSE [i \in 1..Len(ls) |-> Strip(ls[i])]

IsHeaderLine(l) == HeaderMatch(l).ok
HeaderCountry(l) == Strip(HeaderMatch(l).g1)
HeaderCount(l) == ParseInt(HeaderMatch(l).g2)
IsDetailLine(l) == ~IsHeaderLine(l) /\ IpLineMatch(l).ok
DetailOf(l) ==
  [ip |-> IpLineMatch(l).g1, location |-> IpLineMatch(l).g2,
   isp |-> IpLineMatch(l).g3]

HeaderIndexes(ls) == {i \in 1..Len(ls) : IsHeaderLine(ls[i])}

Max(S) == CHOOSE x \in S : \A y \in S : y <= x
Min(S) == CHOOSE x \in S : \A y \in S : x <= y

\* the index of the first header line after line h (Len + 1 when none)
NextHeader(ls, h) == Min({j \in HeaderIndexes(ls) : j > h} \cup {Len(ls) + 1})

\* the details of the detail lines i..j, in source order
RECURSIVE DetailsIn(_, _, _)
DetailsIn(ls, i, j) ==
  IF i > j THEN <<>>
  ELSE (IF IsDetailLine(ls[i]) THEN <<DetailOf(ls[i])>> ELSE <<>>)
       \o DetailsIn(ls, i + 1, j)

\* the detail lines under header line h: after it and before the next header
DetailsUnder(ls, h) == DetailsIn(ls, h + 1, NextHeader(ls, h) - 1)

HeaderCountries(ls) == {HeaderCountry(ls[i]) : i \in HeaderIndexes(ls)}

\* the most recent header line of country c
LastHeaderOf(ls, c) ==
  Max({i \in HeaderIndexes(ls) : HeaderCountry(ls[i]) = c})

\* C7: the details mapping has one list per country with a header line, and
\* the list is the detail lines after the country's most recent header and
\* before the next header line, in source order; a detail line before any
\* header, or under another country's header, is in no other list, and a
\* repeated header starts the country's list again from empty.
C7_DetailsFollowNearestHeader ==
  GeoParsed =>
    LET ls == SectionLines(geo_text)
    IN  /\ DictKeys(geo_data.details) = HeaderCountries(ls)
        /\ \A c \in HeaderCountries(ls) :
             DictGet(geo_data.details, c) = DetailsUnder(ls, LastHeaderOf(ls, c))

\* a parse in which a repeated header discarded a detail line and the new
\* list then received one
C7_Witness ==
  /\ GeoParsed
  /\ LET ls == SectionLines(geo_text)
     IN  \E c \in HeaderCountries(ls) :
           /\ DictGet(geo_data.details, c) # <<>>
           /\ \E h \in HeaderIndexes(ls) :
                /\ HeaderCountry(ls[h]) = c
                /\ h < LastHeaderOf(ls, c)
                /\ DetailsUnder(ls, h) # <<>>

\* the rows of the count table a sequence of header lines gives, in order
RECURSIVE HeaderRows(_, _)
HeaderRows(ls, i) ==
  IF i > Len(ls) THEN <<>>
  ELSE (IF IsHeaderLine(ls[i])
        THEN <<[Country |-> HeaderCountry(ls[i]), Count |-> HeaderCount(ls[i])]>>
        ELSE <<>>) \o HeaderRows(ls, i + 1)

\* C10: the countries of the count table are the keys of the details
\* mapping; the table has one row per header line, in order of appearance,
\* with that header's declared count; a country with k header lines has k
\* rows and one entry in the details mapping.
C10_CountTableRowPerHeader ==
  GeoParsed =>
    LET ls   == SectionLines(geo_text)
        rows == geo_data.df_counts
        det  == geo_data.details
    IN  /\ {rows[i].Country : i \in 1..Len(rows)} = DictKeys(det)
        /\ rows = HeaderRows(ls, 1)
        /\ \A c \in DictKeys(det) :
             /\ Cardinality({i \in 1..Len(rows) : rows[i].Country = c})
                  = Cardinality({h \in HeaderIndexes(ls) : HeaderCountry(ls[h]) = c})
             /\ Cardinality({i \in 1..Len(det) : det[i].key = c}) = 1

\* a parse of a text whose section names one country twice and another once
C10_Witness ==
  /\ GeoParsed
  /\ Len(geo_data.df_counts) = 3
  /\ Len(geo_data.details) = 2

(***************************************************************************)
(* Properties of generate_pdf_report (Spec)                                *)
(***************************************************************************)
\* the check of line 245 let the run continue
Continued ==
  pc \in {"charts", "cover", "section1", "section2", "section3", "build",
          "saved", "save_failed"}

\* the story is complete
Assembled == pc \in {"build", "saved", "save_failed"}

\* what each parser yielded
CatsYielded == df_cats # <<>>
FullYielded == df_full # <<>>
GeoYielded == DOMAIN geo_data.summary # {} \/ geo_data.details # <<>>

\* C1: the run ends without a document exactly when the three parsers all
\* yield nothing (no category record, no indicator record, a geo report
\* with empty summary and empty details); with data from any parser, a geo
\* report with summary statistics only included, the run goes on.
C1_AbortIffNothingParsed ==
  /\ pc = "aborted" => ~(CatsYielded \/ FullYielded \/ GeoYielded)
  /\ Continued => (CatsYielded \/ FullYielded \/ GeoYielded)

\* the flowables of section n: from its header to the next section header
SectionStart(n) ==
  CHOOSE i \in 1..Len(story) :
    story[i].kind = "SectionHeader" /\ story[i].arg = n

SectionFlows(n) ==
  LET a == SectionStart(n)
      b == Min({j \in (a + 1)..Len(story) : story[j].kind = "SectionHeader"}
               \cup {Len(story) + 1})
  IN  SubSeq(story, a + 1, b - 1)

ContentKinds == {"Image", "GeoStats", "Heading3", "CountryHeader", "ListFlowable"}

ShowsContent(n) ==
  \E i \in 1..Len(SectionFlows(n)) : SectionFlows(n)[i].kind \in ContentKinds

ShowsPlaceholder(n) ==
  \E i \in 1..Len(SectionFlows(n)) : SectionFlows(n)[i].kind = "NoData"

\* the section headers of the story, in order
SectionOrder ==
  LET idx == {i \in 1..Len(story) : story[i].kind = "SectionHeader"}
  IN  /\ Cardinality(idx) = 3
      /\ \A n \in 1..3 : \E i \in idx : story[i].arg = n
      /\ SectionStart(1) < SectionStart(2) /\ SectionStart(2) < SectionStart(3)
      /\ SectionStart(1) = 7
      /\ story[2].kind = "CoverTitle"

\* C2: a run that is not aborted builds the cover and the category, ranking
\* and geolocation sections in that order, and each section shows its content
\* exactly when its source yielded data and the "no data" paragraph exactly
\* when it yielded none.
C2_ContentOrPlaceholder ==
  Assembled =>
    /\ SectionOrder
    /\ ShowsContent(1) <=> CatsYielded
    /\ ShowsPlaceholder(1) <=> ~CatsYielded
    /\ ShowsContent(2) <=> FullYielded
    /\ ShowsPlaceholder(2) <=> ~FullYielded
    /\ ShowsContent(3) <=> GeoYielded
    /\ ShowsPlaceholder(3) <=> ~GeoYielded

\* C2 for the first two sections, and for the third with the count table
\* in the place of the geo report's data
C2_ByCountTable ==
  Assembled =>
    /\ SectionOrder
    /\ ShowsContent(1) <=> CatsYielded
    /\ ShowsPlaceholder(1) <=> ~CatsYielded
    /\ ShowsContent(2) <=> FullYielded
    /\ ShowsPlaceholder(2) <=> ~FullYielded
    /\ ShowsContent(3) <=> geo_data.df_counts # <<>>
    /\ ShowsPlaceholder(3) <=> geo_data.df_counts = <<>>

\* the summary sentences of the story
StatsFlows == {i \in 1..Len(story) : story[i].kind = "GeoStats"}

HasDigit(str) == \E i \in 1..Len(str) : IsDigit(str[i])

\* C3: every number in the summary sentence is the raw string captured from
\* a matching summary line; a statistic whose line did not match has no key
\* in the summary mapping and no number is shown for it.
C3_NoFabricatedStatistic ==
  Assembled =>
    \A i \in StatsFlows : \A k \in StatKeys :
      IF StatMatch(k, geo_text).ok
      THEN k \in DOMAIN geo_data.summary
           /\ story[i].arg[k] = geo_data.summary[k]
           /\ geo_data.summary[k] = StatMatch(k, geo_text).g1
      ELSE k \notin DOMAIN geo_data.summary /\ ~HasDigit(story[i].arg[k])

\* the "(n IPs)" the story gives for country c
LabelOf(c) ==
  story[CHOOSE i \in 1..Len(story) :
          story[i].kind = "CountryHeader" /\ story[i].arg.country = c].arg.n

\* the rows of the country chart are the rows of the count table
ChartHasRows(rows) ==
  /\ Len(chart_geo.rows) = Len(rows)
  /\ \A r \in {rows[i] : i \in 1..Len(rows)} :
       Cardinality({i \in 1..Len(rows) : rows[i] = r})
         = Cardinality({i \in 1..Len(rows) : chart_geo.rows[i] = r})

\* header line h of ls is the k-th header line
HeaderRank(ls, h) == Cardinality({j \in HeaderIndexes(ls) : j <= h})

\* what C8 says of header line h: the chart counts the declared N, the
\* country's list has the M lines parsed under h, the label gives M
PreservedAt(ls, h) ==
  LET c == HeaderCountry(ls[h])
      m == Len(DetailsUnder(ls, h))
  IN  /\ ChartHasRows(geo_data.df_counts)
      /\ geo_data.df_counts[HeaderRank(ls, h)].Count = HeaderCount(ls[h])
      /\ Len(DictGet(geo_data.details, c)) = m
      /\ LabelOf(c) = m

\* C8 as stated: for every header that declares N IPs with a different
\* number M of detail lines parsed under it, the chart counts N while the
\* country's list has length M and the label reads "(M IPs)".
C8_DiscrepancyPreserved ==
  Assembled =>
    LET ls == SectionLines(geo_text)
    IN  \A h \in HeaderIndexes(ls) :
          HeaderCount(ls[h]) # Len(DetailsUnder(ls, h)) => PreservedAt(ls, h)

\* C8 as amended: the same for every header that is the last one of its
\* country; an earlier header of a repeated country keeps its row in the
\* chart, and its detail lines are in no list.
C8_DiscrepancyPreservedLastHeader ==
  Assembled =>
    LET ls == SectionLines(geo_text)
    IN  \A h \in HeaderIndexes(ls) :
          (/\ HeaderCount(ls[h]) # Len(DetailsUnder(ls, h))
           /\ h = LastHeaderOf(ls, HeaderCountry(ls[h]))) => PreservedAt(ls, h)

\* a document for a country whose only header declares 3 IPs with one
\* detail line under it
C8_Witness ==
  /\ Assembled
  /\ LET ls == SectionLines(geo_text)
     IN  \E h \in HeaderIndexes(ls) :
           /\ HeaderCount(ls[h]) = 3
           /\ Len(DetailsUnder(ls, h)) = 1
           /\ LabelOf(HeaderCountry(ls[h])) = 1
           /\ Cardinality(HeaderIndexes(ls)) = 1

(***************************************************************************)
(* Properties of the top-score selection (SpecTop)                         *)
(***************************************************************************)
Charted == pc = "cover"

\* the records of df in the order a stable descending sort by Score gives:
\* those with each score, highest score first, each group in input order
RECURSIVE StableFrom(_, _)
StableFrom(df, sc) ==
  IF sc < 0 THEN <<>>
  ELSE SelectSeq(df, LAMBDA r : r.Score = sc) \o StableFrom(df, sc - 1)

StableSortDesc(df) ==
  LET scores == {df[i].Score : i \in 1..Len(df)}
  IN  IF scores = {} THEN <<>> ELSE StableFrom(df, Max(scores))

\* C9: the selection is the first min(N, number of records) records of the
\* input sorted by non-increasing score, records of equal score in their
\* input order.
C9_TopNStable ==
  (Charted /\ df_full # <<>>) =>
     chart_scores.rows = Head_(StableSortDesc(df_full), top_n)

\* the parts of C9 that do not depend on the order of equal scores
C9_TopNUnordered ==
  (Charted /\ df_full # <<>>) =>
     LET rows == chart_scores.rows
         n    == IF top_n < Len(df_full) THEN top_n ELSE Len(df_full)
     IN  /\ Len(rows) = n
         /\ \A i \in 1..(Len(rows) - 1) : rows[i].Score >= rows[i + 1].Score
         /\ [i \in 1..Len(rows) |-> rows[i].Score]
              = [i \in 1..n |-> StableSortDesc(df_full)[i].Score]

====
